---- MODULE Spec2Model ----
(***************************************************************************)
(* Model of sync_rw_cell (src/src/lib.rs): RwCell, an atomically           *)
(* reference-counted cell whose borrow() / borrow_mut() abort the process  *)
(* when borrows conflict, and RwCellGuard, the guard that releases the     *)
(* borrow when dropped.                                                    *)
(*                                                                         *)
(* Threads are external callers.  Every atomic operation on borrow_state   *)
(* is one step; the comparison that follows it, and every step of the      *)
(* abort path, is a separate step, so that other threads run in between.   *)
(* Guards are Send, so they live in one pool and any thread may use or     *)
(* drop any of them.                                                       *)
(*                                                                         *)
(* The counter is an AtomicU16.  Its range is scaled down: U16_MAX stands  *)
(* for u16::MAX and every counter operation wraps modulo U16_MAX + 1, as   *)
(* the atomic operations of the source wrap modulo 2^16.                   *)
(***************************************************************************)
EXTENDS Integers, Sequences, FiniteSets, TLC

\* ---- bounds ----
\* stands for u16::MAX (the sentinel); the shared ceiling is U16_MAX - 1
U16_MAX == 3
\* number of caller threads
NumThreads == 2
\* total number of borrow()/borrow_mut() calls in one run
MaxCalls == 3
\* payload values are 0..MaxValue
MaxValue == 1

Threads == 1..NumThreads
Values == 0..MaxValue
CallIds == 1..MaxCalls
Modulus == U16_MAX + 1
\* the value passed to RwCell::new
InitValue == 0

NoGuard == [id |-> 0, mode |-> "None", view |-> "none"]
\* the observable outcome of one step: the operation, the guard it used
\* (mode, view), the payload value read (v) and the boolean returned (b)
NoEvent == [op |-> "none", mode |-> "None", view |-> "none", v |-> 0,
            b |-> FALSE]

\* a guard: the borrow it releases (id of the acquiring call), its
\* mutability marker M, and whether it views the whole value or a
\* projection of it.  Lifetimes exist at compile time only.
Guards == [id : CallIds, mode : {"Const", "Mut"}, view : {"whole", "part"}]

VARIABLES
    borrow_state,   \* RwCellInner::borrow_state
    value,          \* RwCellInner::value
    guards,         \* the live RwCellGuard objects
    pc,             \* where each thread is
    old,            \* per thread: the value its atomic operation returned
    call,           \* per thread: the id of the acquire call it is in
    orig,           \* per thread: the guard consumed by the map() it is in
    steps,          \* per thread: own steps taken in the current acquire call
    event,          \* what the step just taken was and returned (deref, free, drop)
    terminated,     \* the process has aborted
    nCalls,         \* history: number of acquire calls made so far
    mutAttempted,   \* history: some call was a borrow_mut()
    granted,        \* history: ids of the calls that returned a guard
    released,       \* history: per call id, release operations performed
    leaked,         \* history: ids whose guard was destructured and discarded
    committed       \* history: payload at the last exclusive release

vars == <<borrow_state, value, guards, pc, old, call, orig, steps, event,
          terminated, nCalls, mutAttempted, granted, released, leaked,
          committed>>

\* ---- atomic operations on the counter (wrapping) ----
fetch_add(s) == (s + 1) % Modulus

fetch_sub(s) == (s + Modulus - 1) % Modulus

\* faulty variant of borrow_aborts: the ceiling test is off by one
borrow_aborts_off_by_one(o) == o >= U16_MAX

\* ---- RwCell::borrow: the condition handed to abort_if ----
borrow_aborts(o) == o >= U16_MAX - 1

\* faulty variant of borrow_mut_aborts: only an exclusive borrow is
\* refused
borrow_mut_aborts_sentinel_only(o) == o = U16_MAX

\* ---- RwCell::borrow_mut: the condition handed to abort_if ----
borrow_mut_aborts(o) == o # 0

\* faulty variant of drop_state: the exclusive guard decrements like a shared one
drop_state_always_decrements(mode, s) == fetch_sub(s)

\* faulty variant of drop_state: the test on the mutability marker is
\* inverted
drop_state_inverted(mode, s) == IF mode = "Const" THEN 0 ELSE fetch_sub(s)

\* ---- Drop for RwCellGuard: the new counter value ----
drop_state(mode, s) == IF mode = "Mut" THEN 0 ELSE fetch_sub(s)

\* faulty variant of free_result: only the exclusive sentinel counts as
\* borrowed
free_result_not_sentinel(s) == s # U16_MAX

\* ---- RwCell::free ----
free_result(s) == s = 0

\* guards that exist: in the pool, or moved into a map() in progress
InFlight == {orig[t] : t \in Threads} \ {NoGuard}
Live == guards \cup InFlight
LiveMut == {g \in Live : g.mode = "Mut"}
LiveConst == {g \in Live : g.mode = "Const"}

Idle(t) == pc[t] = "idle" /\ ~terminated

Init ==
    /\ borrow_state = 0
    /\ value = InitValue
    /\ guards = {}
    /\ pc = [t \in Threads |-> "idle"]
    /\ old = [t \in Threads |-> 0]
    /\ call = [t \in Threads |-> 0]
    /\ orig = [t \in Threads |-> NoGuard]
    /\ steps = [t \in Threads |-> 0]
    /\ event = NoEvent
    /\ terminated = FALSE
    /\ nCalls = 0
    /\ mutAttempted = FALSE
    /\ granted = {}
    /\ released = [i \in CallIds |-> 0]
    /\ leaked = {}
    /\ committed = InitValue

\* borrow(): self.inner.borrow_state.fetch_add(1, AcqRel)
borrow_fetch_add(t) ==
    /\ Idle(t)
    /\ nCalls < MaxCalls
    /\ old' = [old EXCEPT ![t] = borrow_state]
    /\ borrow_state' = fetch_add(borrow_state)
    /\ nCalls' = nCalls + 1
    /\ call' = [call EXCEPT ![t] = nCalls + 1]
    /\ steps' = [steps EXCEPT ![t] = 1]
    /\ pc' = [pc EXCEPT ![t] = "borrow_check"]
    /\ event' = NoEvent
    /\ UNCHANGED <<value, guards, orig, terminated, mutAttempted, granted,
                   released, leaked, committed>>

\* borrow(): abort_if(.. >= u16::MAX - 1, ..), then the guard is returned
borrow_check(t) ==
    /\ pc[t] = "borrow_check" /\ ~terminated
    /\ IF borrow_aborts(old[t])
       THEN /\ pc' = [pc EXCEPT ![t] = "abort"]
            /\ steps' = [steps EXCEPT ![t] = steps[t] + 1]
            /\ UNCHANGED <<guards, granted, old, call>>
       ELSE /\ pc' = [pc EXCEPT ![t] = "idle"]
            /\ guards' = guards \cup {[id |-> call[t], mode |-> "Const",
                                       view |-> "whole"]}
            /\ granted' = granted \cup {call[t]}
            /\ old' = [old EXCEPT ![t] = 0]
            /\ call' = [call EXCEPT ![t] = 0]
            /\ steps' = [steps EXCEPT ![t] = 0]
    /\ event' = NoEvent
    /\ UNCHANGED <<borrow_state, value, orig, terminated, nCalls,
                   mutAttempted, released, leaked, committed>>

\* borrow_mut(): self.inner.borrow_state.swap(u16::MAX, AcqRel)
borrow_mut_swap(t) ==
    /\ Idle(t)
    /\ nCalls < MaxCalls
    /\ old' = [old EXCEPT ![t] = borrow_state]
    /\ borrow_state' = U16_MAX
    /\ nCalls' = nCalls + 1
    /\ mutAttempted' = TRUE
    /\ call' = [call EXCEPT ![t] = nCalls + 1]
    /\ steps' = [steps EXCEPT ![t] = 1]
    /\ pc' = [pc EXCEPT ![t] = "borrow_mut_check"]
    /\ event' = NoEvent
    /\ UNCHANGED <<value, guards, orig, terminated, granted, released,
                   leaked, committed>>

\* faulty variant of borrow_mut_check: a failed swap is retried until the cell is
\* free, instead of aborting
borrow_mut_check_retries(t) ==
    /\ pc[t] = "borrow_mut_check" /\ ~terminated
    /\ IF borrow_mut_aborts(old[t])
       THEN /\ old' = [old EXCEPT ![t] = borrow_state]
            /\ borrow_state' = U16_MAX
            /\ steps' = [steps EXCEPT ![t] = steps[t] + 1]
            /\ UNCHANGED <<pc, guards, granted, call>>
       ELSE /\ pc' = [pc EXCEPT ![t] = "idle"]
            /\ guards' = guards \cup {[id |-> call[t], mode |-> "Mut",
                                       view |-> "whole"]}
            /\ granted' = granted \cup {call[t]}
            /\ old' = [old EXCEPT ![t] = 0]
            /\ call' = [call EXCEPT ![t] = 0]
            /\ steps' = [steps EXCEPT ![t] = 0]
            /\ UNCHANGED borrow_state
    /\ event' = NoEvent
    /\ UNCHANGED <<value, orig, terminated, nCalls, mutAttempted, released,
                   leaked, committed>>

\* borrow_mut(): abort_if(.. != 0, ..), then the guard is returned
borrow_mut_check(t) ==
    /\ pc[t] = "borrow_mut_check" /\ ~terminated
    /\ IF borrow_mut_aborts(old[t])
       THEN /\ pc' = [pc EXCEPT ![t] = "abort"]
            /\ steps' = [steps EXCEPT ![t] = steps[t] + 1]
            /\ UNCHANGED <<guards, granted, old, call>>
       ELSE /\ pc' = [pc EXCEPT ![t] = "idle"]
            /\ guards' = guards \cup {[id |-> call[t], mode |-> "Mut",
                                       view |-> "whole"]}
            /\ granted' = granted \cup {call[t]}
            /\ old' = [old EXCEPT ![t] = 0]
            /\ call' = [call EXCEPT ![t] = 0]
            /\ steps' = [steps EXCEPT ![t] = 0]
    /\ event' = NoEvent
    /\ UNCHANGED <<borrow_state, value, orig, terminated, nCalls,
                   mutAttempted, released, leaked, committed>>

\* AbortPanic::abort: the AbortPanic guard is built and the first panic
\* is raised; unwinding starts in abort's own frame
AbortPanic_abort(t) ==
    /\ pc[t] = "abort" /\ ~terminated
    /\ pc' = [pc EXCEPT ![t] = "unwinding"]
    /\ event' = NoEvent
    /\ UNCHANGED <<borrow_state, value, guards, old, call, orig, steps,
                   terminated, nCalls, mutAttempted, granted, released,
                   leaked, committed>>

\* faulty variant of AbortPanic_drop: the destructor does not panic, the unwinding
\* of the first panic goes on into the caller's frames and is caught there
AbortPanic_drop_returns(t) ==
    /\ pc[t] = "unwinding" /\ ~terminated
    /\ pc' = [pc EXCEPT ![t] = "idle"]
    /\ old' = [old EXCEPT ![t] = 0]
    /\ call' = [call EXCEPT ![t] = 0]
    /\ steps' = [steps EXCEPT ![t] = 0]
    /\ event' = NoEvent
    /\ UNCHANGED <<borrow_state, value, guards, orig, terminated, nCalls,
                   mutAttempted, granted, released, leaked, committed>>

\* Drop for AbortPanic, run by the unwinding before any frame of the
\* caller is reached: it panics again, and a panic during unwinding
\* aborts the process
AbortPanic_drop(t) ==
    /\ pc[t] = "unwinding" /\ ~terminated
    /\ terminated' = TRUE
    /\ pc' = [pc EXCEPT ![t] = "dead"]
    /\ event' = NoEvent
    /\ UNCHANGED <<borrow_state, value, guards, old, call, orig, steps,
                   nCalls, mutAttempted, granted, released, leaked,
                   committed>>

\* Drop for RwCellGuard
drop(t, g) ==
    /\ Idle(t)
    /\ g \in guards
    /\ borrow_state' = drop_state(g.mode, borrow_state)
    /\ guards' = guards \ {g}
    /\ released' = [released EXCEPT ![g.id] = released[g.id] + 1]
    /\ committed' = IF g.mode = "Mut" THEN value ELSE committed
    /\ event' = [op |-> "drop", mode |-> g.mode, view |-> g.view, v |-> 0,
                 b |-> FALSE]
    /\ UNCHANGED <<value, pc, old, call, orig, steps, terminated, nCalls,
                   mutAttempted, granted, leaked>>

\* Deref for RwCellGuard: a read of the payload.  The payload is one
\* scalar, so a read that races with a write through another guard sees
\* the payload before or after that write, as the interleaving orders them.
deref(t, g) ==
    /\ Idle(t)
    /\ g \in guards
    /\ event' = [op |-> "deref", mode |-> g.mode, view |-> g.view,
                 v |-> value, b |-> FALSE]
    /\ UNCHANGED <<borrow_state, value, guards, pc, old, call, orig, steps,
                   terminated, nCalls, mutAttempted, granted, released,
                   leaked, committed>>

\* DerefMut for RwCellGuard<Mut, T>: a write of the payload
deref_mut(t, g, v) ==
    /\ Idle(t)
    /\ g \in guards
    /\ g.mode = "Mut"
    /\ value' = v
    /\ event' = NoEvent
    /\ UNCHANGED <<borrow_state, guards, pc, old, call, orig, steps,
                   terminated, nCalls, mutAttempted, granted, released,
                   leaked, committed>>

\* RwCell::free
free(t) ==
    /\ Idle(t)
    /\ event' = [op |-> "free", mode |-> "None", view |-> "none", v |-> 0,
                 b |-> free_result(borrow_state)]
    /\ UNCHANGED <<borrow_state, value, guards, pc, old, call, orig, steps,
                   terminated, nCalls, mutAttempted, granted, released,
                   leaked, committed>>

\* RwCellGuard::detach: transmute(self) to the 'static lifetime; the
\* guard's fields are the same bits before and after
detach(t, g) ==
    /\ Idle(t)
    /\ g \in guards
    /\ guards' = (guards \ {g}) \cup {[id |-> g.id, mode |-> g.mode,
                                       view |-> g.view]}
    /\ event' = [op |-> "detach", mode |-> g.mode, view |-> g.view, v |-> 0,
                 b |-> FALSE]
    /\ UNCHANGED <<borrow_state, value, pc, old, call, orig, steps,
                   terminated, nCalls, mutAttempted, granted, released,
                   leaked, committed>>

\* RwCellGuard::map is entered: orig is moved into the call (for Mut it is
\* converted into RwCellGuardDestructure) and the closure f is invoked
map_call(t, g) ==
    /\ Idle(t)
    /\ g \in guards
    /\ guards' = guards \ {g}
    /\ orig' = [orig EXCEPT ![t] = g]
    /\ pc' = [pc EXCEPT ![t] = "map_f"]
    /\ event' = NoEvent
    /\ UNCHANGED <<borrow_state, value, old, call, steps, terminated, nCalls,
                   mutAttempted, granted, released, leaked, committed>>

\* faulty variant of map_return: the shared map() does not forget orig, whose
\* destructor then runs when map() returns
map_return_drops_orig(t) ==
    /\ pc[t] = "map_f" /\ ~terminated
    /\ guards' = guards \cup {[orig[t] EXCEPT !.view = "part"]}
    /\ IF orig[t].mode = "Const"
       THEN /\ borrow_state' = drop_state("Const", borrow_state)
            /\ released' = [released EXCEPT
                              ![orig[t].id] = released[orig[t].id] + 1]
       ELSE UNCHANGED <<borrow_state, released>>
    /\ orig' = [orig EXCEPT ![t] = NoGuard]
    /\ pc' = [pc EXCEPT ![t] = "idle"]
    /\ event' = NoEvent
    /\ UNCHANGED <<value, old, call, steps, terminated, nCalls, mutAttempted,
                   granted, leaked, committed>>

\* map: f returned the sub-view; the new guard takes orig's borrow_state
\* reference, and orig is forgotten (Const) or was destructured (Mut), so
\* orig's destructor does not run
map_return(t) ==
    /\ pc[t] = "map_f" /\ ~terminated
    /\ guards' = guards \cup {[orig[t] EXCEPT !.view = "part"]}
    /\ orig' = [orig EXCEPT ![t] = NoGuard]
    /\ pc' = [pc EXCEPT ![t] = "idle"]
    /\ event' = NoEvent
    /\ UNCHANGED <<borrow_state, value, old, call, steps, terminated, nCalls,
                   mutAttempted, granted, released, leaked, committed>>

\* map: f panicked.  Const: orig is still an RwCellGuard owned by map's
\* frame, and the unwinding drops it.  Mut: orig was converted into
\* RwCellGuardDestructure, which has no destructor.
map_unwind(t) ==
    /\ pc[t] = "map_f" /\ ~terminated
    /\ IF orig[t].mode = "Const"
       THEN /\ borrow_state' = drop_state("Const", borrow_state)
            /\ released' = [released EXCEPT
                              ![orig[t].id] = released[orig[t].id] + 1]
            /\ UNCHANGED leaked
       ELSE /\ leaked' = leaked \cup {orig[t].id}
            /\ UNCHANGED <<borrow_state, released>>
    /\ orig' = [orig EXCEPT ![t] = NoGuard]
    /\ pc' = [pc EXCEPT ![t] = "idle"]
    /\ event' = NoEvent
    /\ UNCHANGED <<value, guards, old, call, steps, terminated, nCalls,
                   mutAttempted, granted, committed>>

Next ==
    \/ \E t \in Threads : borrow_fetch_add(t)
    \/ \E t \in Threads : borrow_check(t)
    \/ \E t \in Threads : borrow_mut_swap(t)
    \/ \E t \in Threads : borrow_mut_check(t)
    \/ \E t \in Threads : AbortPanic_abort(t)
    \/ \E t \in Threads : AbortPanic_drop(t)
    \/ \E t \in Threads : \E g \in guards : drop(t, g)
    \/ \E t \in Threads : \E g \in guards : deref(t, g)
    \/ \E t \in Threads : \E g \in guards : \E v \in Values : deref_mut(t, g, v)
    \/ \E t \in Threads : free(t)
    \/ \E t \in Threads : \E g \in guards : detach(t, g)
    \/ \E t \in Threads : \E g \in guards : map_call(t, g)
    \/ \E t \in Threads : map_return(t)
    \/ \E t \in Threads : map_unwind(t)

Spec == Init /\ [][Next]_vars

\* one step of the abort path, by any thread
AbortStep == \E t \in Threads : AbortPanic_abort(t) \/ AbortPanic_drop(t)

\* the threads that have entered the abort path are not all starved
\* forever: nothing in the path waits, so some aborting thread gets to run
FairSpec == Spec /\ WF_vars(AbortStep)

\* one thread alone performs a sequence of borrow(), borrow_mut() and
\* guard drops, uses the guards it holds in between, and runs the abort
\* path when an acquire fails
SingleThread == {t \in Threads : \A u \in Threads : t <= u}

SingleNext ==
    \E t \in SingleThread :
        \/ borrow_fetch_add(t)
        \/ borrow_check(t)
        \/ borrow_mut_swap(t)
        \/ borrow_mut_check(t)
        \/ \E g \in guards : drop(t, g)
        \/ \E g \in guards : deref(t, g)
        \/ \E g \in guards : \E v \in Values : deref_mut(t, g, v)
        \/ free(t)
        \/ AbortPanic_abort(t)
        \/ AbortPanic_drop(t)

SingleSpec == Init /\ [][SingleNext]_vars

TypeOK ==
    /\ borrow_state \in 0..U16_MAX
    /\ value \in Values
    /\ guards \subseteq Guards
    /\ nCalls <= MaxCalls

\* the shared ceiling: the largest number of coexisting shared guards
Ceiling == U16_MAX - 1

AbortPcs == {"abort", "unwinding", "dead"}

\* thread t takes the step that is the fetch_add of borrow()
StartsBorrow(t) == pc[t] = "idle" /\ pc'[t] = "borrow_check"

\* thread t takes the step that is the swap of borrow_mut()
StartsBorrowMut(t) == pc[t] = "idle" /\ pc'[t] = "borrow_mut_check"

\* ---------------------------------------------------------------------
\* C1: mutual exclusion.  In every reachable state of the running
\* process at most one exclusive guard is live, and while one is live no
\* shared guard is live, also while another thread is between the counter
\* update of a failing acquire and the termination of the process.
C1_MutualExclusion ==
    ~terminated =>
        /\ Cardinality(LiveMut) <= 1
        /\ (LiveMut # {} => LiveConst = {})

\* C2: a borrow() whose fetch_add happens while an exclusive guard is live
\* reads a counter value that makes it abort, so it returns no guard.
C2_SharedAcquireAborts ==
    [][\A t \in Threads :
          (StartsBorrow(t) /\ LiveMut # {}) => borrow_aborts(old'[t])]_vars

\* C3: a borrow_mut() whose swap happens while any guard (shared or
\* exclusive) is live reads a counter value that makes it abort, so it
\* returns no guard.
C3_ExclusiveAcquireAborts ==
    [][\A t \in Threads :
          (StartsBorrowMut(t) /\ Live # {}) => borrow_mut_aborts(old'[t])]_vars

\* no exclusive acquire was attempted and no guard was released
Pristine ==
    /\ ~mutAttempted
    /\ \A i \in CallIds : released[i] = 0

\* the acquire call with id i is past its atomic operation and is failing
Failing(i) ==
    \E t \in Threads :
        /\ call[t] = i
        /\ \/ pc[t] \in AbortPcs
           \/ pc[t] = "borrow_check" /\ borrow_aborts(old[t])
           \/ pc[t] = "borrow_mut_check" /\ borrow_mut_aborts(old[t])

\* the acquire call with id i is past its atomic operation and has
\* returned a guard or is about to
Succeeding(i) ==
    \/ i \in granted
    \/ \E t \in Threads :
          /\ call[t] = i
          /\ \/ pc[t] = "borrow_check" /\ ~borrow_aborts(old[t])
             \/ pc[t] = "borrow_mut_check" /\ ~borrow_mut_aborts(old[t])

\* ---------------------------------------------------------------------
\* C4: shared capacity.  On a fresh cell, with no exclusive acquire
\* attempted and nothing released, the first Ceiling borrow() calls (in
\* the order of their fetch_add) all succeed and their guards stay live,
\* the call after them aborts, and every read through a guard sees the
\* value the cell was built with.
C4_SharedCapacity ==
    Pristine =>
        /\ \A i \in 1..nCalls :
              /\ i <= Ceiling => Succeeding(i) /\ ~Failing(i)
              /\ i = Ceiling + 1 => Failing(i) /\ ~Succeeding(i)
        /\ \A i \in granted : \E g \in Live : g.id = i /\ g.mode = "Const"
        /\ event.op = "deref" => event.v = InitValue

C4_Witness ==
    /\ Pristine
    /\ Cardinality({g.id : g \in guards}) = Ceiling
    /\ \E t \in Threads : pc[t] = "abort" /\ call[t] = Ceiling + 1
    /\ event.op = "deref"

\* every acquire made so far succeeded, every guard handed out has been
\* dropped, and no call is in progress
Quiescent ==
    /\ ~terminated
    /\ \A t \in Threads : pc[t] = "idle"
    /\ Live = {}
    /\ \A i \in 1..nCalls : i \in granted /\ released[i] >= 1

\* ---------------------------------------------------------------------
\* C5: reusability after release.  When every acquire so far succeeded
\* and every guard handed out has been dropped, the counter is 0, so the
\* value the next borrow() reads passes its test and the value the next
\* borrow_mut() reads passes its test.
C5_ReusableAfterRelease ==
    Quiescent =>
        /\ borrow_state = 0
        /\ ~borrow_aborts(borrow_state)
        /\ ~borrow_mut_aborts(borrow_state)

C5_Witness ==
    /\ Quiescent
    /\ mutAttempted
    /\ nCalls >= 2
    /\ event.op = "drop"

\* ---------------------------------------------------------------------
\* C6: write-then-read round trip.  Every read through a shared guard
\* returns the payload as of the most recent release of an exclusive
\* guard (the constructed value before the first one).
C6_WriteThenRead ==
    (event.op = "deref" /\ event.mode = "Const") => event.v = committed

\* the guard g is narrowed (made by map) or is inside a map() in progress
Narrowed(g) == g.view = "part" \/ g \in InFlight

\* thread t takes the step in which map() returns the narrowed guard
MapReturns(t) == pc[t] = "map_f" /\ pc'[t] = "idle" /\ guards' # guards

\* ---------------------------------------------------------------------
\* C7: narrowing keeps the borrow held.  map() leaves the counter
\* unchanged and yields a guard of the same mode for the same borrow, and
\* a borrow_mut() whose swap happens while a narrowed guard (or a guard
\* inside map) is live aborts.
C7_NarrowingKeepsBorrow ==
    [][/\ \A t \in Threads :
            MapReturns(t) =>
               /\ borrow_state' = borrow_state
               /\ guards' = guards \cup {[orig[t] EXCEPT !.view = "part"]}
       /\ \A t \in Threads :
            (StartsBorrowMut(t) /\ \E g \in Live : Narrowed(g))
               => borrow_mut_aborts(old'[t])]_vars

\* guards (in the pool or inside map) that hold the borrow of call i
Holders(i) == {g \in Live : g.id = i}

\* ---------------------------------------------------------------------
\* C8: exactly-once release.  A borrow is never released twice; a borrow
\* that was granted and whose guard was not discarded undropped is either
\* held by exactly one guard and not yet released, or held by none and
\* released exactly once; a call that returned no guard releases nothing.
C8_ExactlyOnceRelease ==
    \A i \in CallIds :
        /\ released[i] <= 1
        /\ (i \in granted \ leaked) =>
               released[i] + Cardinality(Holders(i)) = 1
        /\ i \notin granted => released[i] = 0 /\ Holders(i) = {}

C8_Witness ==
    /\ event.op = "drop"
    /\ event.view = "part"
    /\ \E i \in granted : released[i] = 1 /\ Holders(i) = {}

\* ---------------------------------------------------------------------
\* C9: the abort mechanism.  A thread that entered AbortPanic::abort
\* never gets back to its caller, and the process ends up terminated.
C9_AbortTerminates ==
    /\ [][\A t \in Threads :
             pc[t] \in AbortPcs => pc'[t] \in AbortPcs]_vars
    /\ (\E t \in Threads : pc[t] = "abort") ~> terminated

C9_Witness ==
    /\ terminated
    /\ \E t \in Threads : pc[t] = "dead"

\* thread t is inside borrow() or borrow_mut(), after the atomic operation
\* and before the comparison
InAcquire(t) == pc[t] \in {"borrow_check", "borrow_mut_check"}

\* ---------------------------------------------------------------------
\* C10: no blocking.  An acquire is one atomic operation followed by one
\* comparison: before the comparison the call has taken one step, the
\* comparison can always be taken whatever the other threads have done,
\* and a call that aborted took two steps.
C10_NoBlocking ==
    \A t \in Threads :
        /\ InAcquire(t) => steps[t] = 1
        /\ (InAcquire(t) /\ ~terminated) =>
               ENABLED (borrow_check(t) \/ borrow_mut_check(t))
        /\ pc[t] \in AbortPcs => steps[t] = 2

C10_Witness ==
    \E t \in Threads :
        /\ pc[t] = "abort"
        /\ steps[t] = 2
        /\ Live # {}
        /\ ~terminated

\* ---------------------------------------------------------------------
\* C11: free() is a pure snapshot.  A free() step returns TRUE exactly
\* when the counter it reads is 0, changes neither the counter, the
\* payload, the guards nor any thread's position (it does not abort), and
\* on a cell on which nothing was ever acquired it returns TRUE.
C11_FreeSnapshot ==
    [][event'.op = "free" =>
          /\ event'.b = (borrow_state = 0)
          /\ borrow_state' = borrow_state
          /\ value' = value
          /\ guards' = guards
          /\ pc' = pc
          /\ terminated' = terminated
          /\ (nCalls = 0 => event'.b)]_vars

C11_Witness ==
    /\ event.op = "free"
    /\ ~event.b
    /\ Live # {}

\* the reference borrow-checked cell (a set of readers or one writer, at
\* most Ceiling readers), whose borrows are the guards that exist
RefGrantsShared == LiveMut = {} /\ Cardinality(LiveConst) < Ceiling

RefGrantsExclusive == LiveMut = {} /\ LiveConst = {}

\* ---------------------------------------------------------------------
\* C12: single-threaded equivalence with a reference borrow-checked cell.
\* When one thread alone performs borrow(), borrow_mut() and guard drops,
\* the test of borrow() fails exactly when the reference cell refuses a
\* reader, the test of borrow_mut() fails exactly when it refuses a
\* writer, and an aborting call is one the reference cell refused.
C12_RefCellEquivalence ==
    \A t \in Threads :
        /\ pc[t] = "borrow_check" =>
              (borrow_aborts(old[t]) <=> ~RefGrantsShared)
        /\ pc[t] = "borrow_mut_check" =>
              (borrow_mut_aborts(old[t]) <=> ~RefGrantsExclusive)
        /\ pc[t] \in AbortPcs => ~RefGrantsExclusive

C12_Witness ==
    /\ \E t \in Threads : pc[t] = "abort"
    /\ LiveMut # {}
    /\ \E i \in granted : released[i] = 1

\* shared borrows held: by a live shared guard, or by a borrow() that is
\* past its fetch_add and is going to return its guard
SharedHeld ==
    Cardinality({g.id : g \in LiveConst})
    + Cardinality({t \in Threads :
                      pc[t] = "borrow_check" /\ ~borrow_aborts(old[t])})

\* exclusive borrows held: by a live exclusive guard, or by a borrow_mut()
\* that is past its swap and is going to return its guard
ExclusiveHeld ==
    Cardinality({g.id : g \in LiveMut})
    + Cardinality({t \in Threads :
                      pc[t] = "borrow_mut_check" /\ ~borrow_mut_aborts(old[t])})

\* ---------------------------------------------------------------------
\* C13: counter encoding.  While the process has not terminated the
\* counter is 0 iff nothing is borrowed, is n in 1..Ceiling iff exactly n
\* shared borrows and no exclusive borrow are held, and is the sentinel
\* iff exactly one exclusive borrow and no shared borrow is held.
C13_CounterEncoding ==
    ~terminated =>
        /\ borrow_state = 0 <=> (SharedHeld = 0 /\ ExclusiveHeld = 0)
        /\ \A n \in 1..Ceiling :
              borrow_state = n <=> (SharedHeld = n /\ ExclusiveHeld = 0)
        /\ borrow_state = U16_MAX <=> (ExclusiveHeld = 1 /\ SharedHeld = 0)

\* ---------------------------------------------------------------------
\* C14: teardown by mode.  A step that drops a guard removes that one
\* guard and performs one release for its borrow: the counter becomes 0
\* (whatever it was) when the guard is exclusive, and is decremented by
\* one (as the 16-bit atomic decrements, modulo its range) when the guard
\* is shared.  No step, map() and detach() included, changes the mode of
\* the guard that holds a borrow.
C14_TeardownByMode ==
    [][/\ event'.op = "drop" =>
            \E g \in guards :
               /\ guards' = guards \ {g}
               /\ event'.mode = g.mode
               /\ released' = [released EXCEPT ![g.id] = released[g.id] + 1]
               /\ g.mode = "Mut" => borrow_state' = 0
               /\ g.mode = "Const" =>
                     borrow_state' = IF borrow_state = 0
                                     THEN U16_MAX
                                     ELSE borrow_state - 1
       /\ \A g \in Live : \A h \in Live' : g.id = h.id => g.mode = h.mode
       /\ event'.op = "detach" => guards' = guards]_vars

C14_Witness ==
    /\ event.op = "drop"
    /\ event.mode = "Mut"
    /\ event.view = "part"
    /\ borrow_state = 0
    /\ LiveConst # {}

\* no exclusive acquire was attempted and no acquire is failing or failed
OnlySharedSuccesses ==
    /\ ~mutAttempted
    /\ \A i \in 1..nCalls : ~Failing(i)

\* ---------------------------------------------------------------------
\* C15: the sentinel is reserved for exclusive borrows.  A borrow() whose
\* fetch_add leaves the counter at the sentinel is one that aborts, so no
\* borrow() that returns a guard leaves it there; and while only shared
\* acquires were made and all of them succeeded, the counter stays within
\* 0..Ceiling.
C15_SentinelReserved ==
    /\ [][\A t \in Threads :
             (StartsBorrow(t) /\ borrow_state' = U16_MAX)
                => borrow_aborts(old'[t])]_vars
    /\ [](OnlySharedSuccesses => borrow_state \in 0..Ceiling)

C15_Witness ==
    /\ ~mutAttempted
    /\ borrow_state = U16_MAX
    /\ \E t \in Threads : pc[t] = "abort"
    /\ Cardinality(LiveConst) = Ceiling

\* ---------------------------------------------------------------------
\* C16: no counter wrap-around.  The fetch_add of borrow() is never
\* applied to a counter at the maximum value, and the fetch_sub of the
\* drop of a shared guard is never applied to a counter at 0.
C16_NoWrapAround ==
    [][/\ \A t \in Threads : StartsBorrow(t) => borrow_state # U16_MAX
       /\ (event'.op = "drop" /\ event'.mode = "Const") => borrow_state # 0
      ]_vars

\* ---------------------------------------------------------------------
\* C17: free() never reports a borrowed cell as free.  When a free() step
\* returns TRUE, no guard is live at that step.
C17_FreeImpliesNoGuard ==
    (event.op = "free" /\ event.b) => Live = {}

\* thread t takes the step in which the closure given to map() panics and
\* map's frame is unwound
MapUnwinds(t) == pc[t] = "map_f" /\ pc'[t] = "idle" /\ guards' = guards

\* ---------------------------------------------------------------------
\* C18: a failing projection releases the borrow exactly once.  When the
\* closure given to map() panics, the unwinding performs one release for
\* the borrow of the original guard, shared or exclusive, and the counter
\* changes as the drop of that guard changes it.
C18_FailedMapReleasesOnce ==
    [][\A t \in Threads :
          MapUnwinds(t) =>
             /\ released'[orig[t].id] = released[orig[t].id] + 1
             /\ borrow_state' = drop_state(orig[t].mode, borrow_state)]_vars
====
